---- MODULE Spec2Model ----
(***************************************************************************)
(* A model of yearn.py: the conversion of the Ultima IV tile maps into a   *)
(* Minetest/Luanti world.  The script interns itemstrings into bytes       *)
(* (block_map / get_block_byte), accumulates voxels in a sparse store of   *)
(* 16x16x16 chunks (World / set_block), makes one pass over the world map, *)
(* overlays the towns (read_town), and finally serialises every chunk      *)
(* (block_to_data, block_to_binary) and writes it to sqlite (write_block). *)
(***************************************************************************)
EXTENDS Integers, Sequences, FiniteSets, TLC

VARIABLES
    World,          \* defaultdict: [order |-> keys in insertion order, chunk |-> key -> bytearray]
    block_map,      \* dict itemstring -> byte; [order |-> names in insertion order, id |-> name -> int]
    unknown_tiles,  \* defaultdict(int): tile id -> occurrences
    pc,             \* position of the script
    ultima_world,   \* contents of dat/WORLD.MAP
    ultima_towns,   \* contents of dat/<name>.ULT, by position in the list of read_town calls
    ty, tx,         \* loop variables of the world pass
    town_i,         \* number of read_town calls made
    db,             \* the sqlite connection: [rows |-> pos -> data, committed |-> pos -> data, log |-> calls]
    n, progress,    \* loop variables of the write loop
    hist            \* history of the calls made, kept for the properties only

vars == <<World, block_map, unknown_tiles, pc, ultima_world, ultima_towns,
          ty, tx, town_i, db, n, progress, hist>>

----------------------------------------------------------------------------
(* Program constants *)

\* voxels along the edge of a chunk (16 in the script; the model keeps the
\* formulas and checks them on smaller chunks, as it does for the maps)
CHUNK == 4

CHUNK3 == CHUNK * CHUNK * CHUNK

\* a bytearray element must be in range(0, 256)
BYTE == 256

----------------------------------------------------------------------------
(* The sparse chunk store *)

\* bytearray(CHUNK3): CHUNK3 zero bytes
EmptyChunk == [i \in 0..(CHUNK3 - 1) |-> 0]

\* defaultdict(lambda: bytearray(CHUNK3)) with no key yet
EmptyWorld == [order |-> <<>>, chunk |-> <<>>]

\* C-style division truncating towards zero instead of Python's floor division
TruncDiv(a, b) == IF a < 0 THEN -((-a) \div b) ELSE a \div b

chunk_key_trunc(x, y, z) == <<TruncDiv(x, CHUNK), TruncDiv(y, CHUNK), TruncDiv(z, CHUNK)>>

\* (x//CHUNK, y//CHUNK, z//CHUNK); Python's // is floor division, as \div is
chunk_key(x, y, z) == <<x \div CHUNK, y \div CHUNK, z \div CHUNK>>

\* (z%CHUNK)*CHUNK*CHUNK + (y%CHUNK)*CHUNK + (x%CHUNK); Python's % is
\* non-negative for a positive modulus, as % is
chunk_index(x, y, z) == (z % CHUNK) * CHUNK * CHUNK + (y % CHUNK) * CHUNK + (x % CHUNK)

\* the index with the x and the z axes exchanged
set_block_xz(W, x, y, z, b) ==
    LET key == chunk_key(x, y, z)
        fresh == key \notin DOMAIN W.chunk
        W1 == IF fresh
              THEN [order |-> Append(W.order, key), chunk |-> W.chunk @@ (key :> EmptyChunk)]
              ELSE W
    IN  IF b \in 0..(BYTE - 1)
        THEN [World |-> [W1 EXCEPT !.chunk[key][chunk_index(z, y, x)] = b], ok |-> TRUE]
        ELSE [World |-> W1, ok |-> FALSE]

\* a store of plain integers, with no range check on the element
set_block_nocheck(W, x, y, z, b) ==
    LET key == chunk_key(x, y, z)
        fresh == key \notin DOMAIN W.chunk
        W1 == IF fresh
              THEN [order |-> Append(W.order, key), chunk |-> W.chunk @@ (key :> EmptyChunk)]
              ELSE W
    IN  [World |-> [W1 EXCEPT !.chunk[key][chunk_index(x, y, z)] = b], ok |-> TRUE]

\* set_block(x, y, z, b) on the store W.  World[key] creates the chunk when
\* the key is new (defaultdict); the assignment into the bytearray raises
\* ValueError when b is not in range(0, 256), after the chunk was created.
\* a set_block that leaves a voxel that was set before as it is
set_block_keep(W, x, y, z, b) ==
    LET key == chunk_key(x, y, z)
        fresh == key \notin DOMAIN W.chunk
        W1 == IF fresh
              THEN [order |-> Append(W.order, key), chunk |-> W.chunk @@ (key :> EmptyChunk)]
              ELSE W
    IN  IF b \in 0..(BYTE - 1)
        THEN [World |-> IF W1.chunk[key][chunk_index(x, y, z)] = 0
                        THEN [W1 EXCEPT !.chunk[key][chunk_index(x, y, z)] = b]
                        ELSE W1,
              ok |-> TRUE]
        ELSE [World |-> W1, ok |-> FALSE]

set_block(W, x, y, z, b) ==
    LET key == chunk_key(x, y, z)
        fresh == key \notin DOMAIN W.chunk
        W1 == IF fresh
              THEN [order |-> Append(W.order, key), chunk |-> W.chunk @@ (key :> EmptyChunk)]
              ELSE W
    IN  IF b \in 0..(BYTE - 1)
        THEN [World |-> [W1 EXCEPT !.chunk[key][chunk_index(x, y, z)] = b], ok |-> TRUE]
        ELSE [World |-> W1, ok |-> FALSE]

\* ChunkStore.get of the specification: the voxel at (x, y, z), 0 when its
\* chunk was never created.  local = ((coord % edge) + edge) % edge.
local_of(c) == ((c % CHUNK) + CHUNK) % CHUNK

get_block(W, x, y, z) ==
    LET lx == local_of(x)
        ly == local_of(y)
        lz == local_of(z)
        key == <<(x - lx) \div CHUNK, (y - ly) \div CHUNK, (z - lz) \div CHUNK>>
    IN  IF key \in DOMAIN W.chunk
        THEN W.chunk[key][lz * CHUNK * CHUNK + ly * CHUNK + lx]
        ELSE 0

----------------------------------------------------------------------------
(* The table of block types *)

\* block_map = { "air": 0 }
InitBlockMap == [order |-> <<"air">>, id |-> ("air" :> 0)]

\* an interning that numbers from 1 + len, leaving ids unused
get_block_byte_skip(bm, itemstring) ==
    IF itemstring \in DOMAIN bm.id
    THEN [block_map |-> bm, bb |-> bm.id[itemstring]]
    ELSE [block_map |-> [order |-> Append(bm.order, itemstring),
                         id |-> bm.id @@ (itemstring :> Len(bm.order) + 1)],
          bb |-> Len(bm.order) + 1]

\* block_map.setdefault(itemstring, len(block_map))
get_block_byte(bm, itemstring) ==
    IF itemstring \in DOMAIN bm.id
    THEN [block_map |-> bm, bb |-> bm.id[itemstring]]
    ELSE [block_map |-> [order |-> Append(bm.order, itemstring),
                         id |-> bm.id @@ (itemstring :> Len(bm.order))],
          bb |-> Len(bm.order)]

----------------------------------------------------------------------------
(* Tiles and their stacks of blocks *)

\* [name] * k
Rep(name, k) == [i \in 1..k |-> name]

\* blocks_for_tile.get(tile): the stacks the tile's generator can return (one
\* per outcome of random.choice, random.choices, random.randint), and the
\* empty set when the table has no entry for the tile (None)
blocks_for_tile(tile) ==
    CASE tile = 0 -> {<<"default:sand", "default:water_source", "default:water_source">>}
      [] tile = 1 -> {<<"default:sand", "default:sand", "default:water_source">>}
      [] tile = 2 -> {<<"default:stone", "default:sand", "default:river_water_source">>}
      [] tile = 3 -> {<<"default:stone", "default:dirt", "default:dirt_with_grass">>}
      [] tile = 4 -> {<<"default:stone", "default:dirt", "default:dirt", "default:dirt_with_grass">>}
      [] tile = 5 -> {<<"default:stone", "default:dirt", "default:dirt",
                        "default:dirt_with_rainforest_litter", g>> :
                         g \in {"default:junglegrass", "default:junglesapling"}}
      [] tile = 6 -> {<<"default:stone", "default:dirt", "default:gravel", "default:dirt",
                        "default:dirt">> \o t :
                         t \in {<<"default:dirt">>, <<"default:dirt_with_coniferous_litter">>,
                                <<"default:dirt", "default:pine_sapling">>,
                                <<"default:dirt", "default:aspen_sapling">>}}
      [] tile = 7 -> {Rep("default:stone", k) : k \in 4..5}
      [] tile = 8 -> {Rep("default:stone", k) \o <<"default:snow">> : k \in 8..12}
      [] tile = 22 -> {<<"default:cobble">>}
      [] tile = 23 -> {<<"default:stone", "default:gravel", "default:water_source", "air",
                         "default:stone">>}
      [] tile = 27 -> {<<"default:brick">> \o Rep("default:ladder_wood", 4)}
      [] tile = 28 -> {Rep("default:ladder_wood", 2)}
      [] tile = 58 -> {<<"default:brick", "air", "air", "air", "default:brick", "default:brick">>}
      [] tile = 59 -> {<<"default:brick", "air", "air", "air", "default:brick", "default:brick">>}
      [] tile = 55 -> {<<"default:stone", "default:slab_cobble">>}
      [] tile = 57 -> {<<"default:stone", "default:cobble">>}
      [] tile = 61 -> {Rep("default:diamondblock", 10)}
      [] tile = 62 -> {<<"default:brick">>}
      [] tile = 70 -> {Rep("default:obsidian_block", 6)}
      [] tile = 76 -> {Rep("default:lava", k) : k \in 8..10}
      [] tile = 108 -> {Rep("default:glass", 6)}
      [] tile = 109 -> {Rep("default:glass", 6)}
      [] tile = 127 -> {Rep("default:brick", 6)}
      [] OTHER -> {}

\* default_blocks_for_tile = lambda: [ 'default:goldblock' ] * 4
default_blocks_for_tile == {Rep("default:goldblock", 4)}

\* unknown_tiles[tile] += 1 on a defaultdict(int)
count_unknown(u, tile) ==
    IF tile \in DOMAIN u THEN [u EXCEPT ![tile] = @ + 1] ELSE u @@ (tile :> 1)

\* the counter read as a defaultdict(int) reads it
unknown_count(u, tile) == IF tile \in DOMAIN u THEN u[tile] ELSE 0

----------------------------------------------------------------------------
(* The body of the innermost loops: bb = get_block_byte(block);            *)
(* set_block(x, y, z, bb), once per element of a list of placements, in    *)
(* order.  The first set_block that raises ends the run.                   *)

RECURSIVE place_all(_, _)
place_all(st, ps) ==
    IF ps = <<>> \/ ~st.ok
    THEN st
    ELSE LET p == Head(ps)
             g == get_block_byte(st.block_map, p.block)
             s == set_block(st.World, p.x, p.y, p.z, g.bb)
         IN  place_all([World |-> s.World, block_map |-> g.block_map, ok |-> s.ok,
                        done |-> IF s.ok
                                 THEN Append(st.done, [x |-> p.x, y |-> p.y, z |-> p.z, bb |-> g.bb])
                                 ELSE st.done],
                       Tail(ps))

\* for (oz, block) in enumerate(stack): the placements of one column
column(x, y0, z, stack) ==
    [i \in 1..Len(stack) |-> [x |-> x, y |-> y0 + (i - 1), z |-> z, block |-> stack[i]]]

RECURSIVE Flatten(_)
Flatten(ss) == IF ss = <<>> THEN <<>> ELSE Head(ss) \o Flatten(Tail(ss))

----------------------------------------------------------------------------
(* Dimensions of the maps.  The script fixes them (a world of 8x8 blocks of *)
(* 32x32 tiles, SCALE 12, towns of 32x32 tiles); the model keeps the        *)
(* formulas and checks them on smaller maps.                                *)

\* tiles along the edge of one block of the world map (32 in the script)
SUB == 2

\* blocks along the edge of the world map (8 in the script)
NSUB == 2

\* voxels along the edge of a world tile (12 in the script)
SCALE == 2

\* tiles along the edge of a town (32 in the script)
TOWN == 4

\* tiles along the edge of the world map (256 in the script)
GRID == NSUB * SUB

\* half the edge of a town (16 in the script)
HALF == TOWN \div 2

\* the read_town calls of the script: two towns on one tile at the heights 4
\* (the default) and 10, as LCB_1 and LCB_2 are, and one elsewhere
TownCalls ==
    << [x |-> 0, y |-> 1, z |-> 4],
       [x |-> 0, y |-> 1, z |-> 10],
       [x |-> GRID - 1, y |-> GRID - 1, z |-> 4] >>

----------------------------------------------------------------------------
(* The world pass *)

\* an index that takes the blocks of the map to be one tile apart
world_index_flat(tx_, ty_) ==
    (ty_ \div SUB) * (SUB * SUB) + (tx_ \div SUB) * (SUB * SUB) + (ty_ % SUB) * SUB + (tx_ % SUB)

\* (ty // 32) * 8192 + (tx // 32) * 1024 + (ty % 32) * 32 + (tx % 32)
world_index(tx_, ty_) ==
    (ty_ \div SUB) * (NSUB * SUB * SUB) + (tx_ \div SUB) * (SUB * SUB)
        + (ty_ % SUB) * SUB + (tx_ % SUB)

\* tx*SCALE+ox
world_x(tx_, ox) == tx_ * SCALE + ox

\* (256*SCALE)-(ty*SCALE+oy)
world_z(ty_, oy) == (GRID * SCALE) - (ty_ * SCALE + oy)

\* a generator that leaves a tile without a rule empty
world_generator_skip(tile) ==
    IF blocks_for_tile(tile) = {} THEN {<<>>} ELSE blocks_for_tile(tile)

\* block_generator of the world pass: the tile's, or default_blocks_for_tile
world_generator(tile) ==
    IF blocks_for_tile(tile) = {} THEN default_blocks_for_tile ELSE blocks_for_tile(tile)

\* for ox in range(SCALE): for oy in range(SCALE): for (oz, block) in
\* enumerate(block_generator()): the columns of one tile, in the order of the
\* loops; stacks[c] is what block_generator() returned for the c-th column
world_columns(tx_, ty_, stacks) ==
    [c \in 1..(SCALE * SCALE) |->
        column(world_x(tx_, (c - 1) \div SCALE), 0, world_z(ty_, (c - 1) % SCALE), stacks[c])]

\* the columns of one tile, one after the other
RECURSIVE place_columns(_, _)
place_columns(st, cols) ==
    IF cols = <<>> \/ ~st.ok
    THEN st
    ELSE place_columns(place_all(st, Head(cols)), Tail(cols))

\* The tiles of a map, one after the other: the counter of unknown tiles
\* first, then the columns of the tile.
RECURSIVE run_tiles(_, _)
run_tiles(st, items) ==
    IF items = <<>> \/ ~st.ok
    THEN st
    ELSE LET it == Head(items)
             u == IF it.unknown THEN count_unknown(st.unknown_tiles, it.tile)
                  ELSE st.unknown_tiles
             r == place_columns([World |-> st.World, block_map |-> st.block_map,
                                 ok |-> TRUE, done |-> st.done], it.cols)
         IN  run_tiles([World |-> r.World, block_map |-> r.block_map, unknown_tiles |-> u,
                        ok |-> r.ok, done |-> r.done], Tail(items))

\* the state the loops start from
LoopState == [World |-> World, block_map |-> block_map, unknown_tiles |-> unknown_tiles,
              ok |-> TRUE, done |-> <<>>]

----------------------------------------------------------------------------
(* read_town *)

\* xo = x * SCALE + SCALE//2 - 16
town_xo(x) == x * SCALE + SCALE \div 2 - HALF

\* yo = (255-y) * SCALE + SCALE//2 + 16
town_yo(y) == ((GRID - 1) - y) * SCALE + SCALE \div 2 + HALF

\* block_generator of read_town: the tile's; a tile without a rule is
\* skipped (continue), which places nothing
town_generator(tile) ==
    IF blocks_for_tile(tile) = {} THEN {<<>>} ELSE blocks_for_tile(tile)

\* the k-th tile read_town visits: for tx in range(0,32): for ty in range(0,32)
town_tx(k) == (k - 1) \div TOWN

town_ty(k) == (k - 1) % TOWN

\* ultima_town[ty*32+tx]
town_tile(grid, k) == grid[town_ty(k) * TOWN + town_tx(k)]

\* the sequences that take their k-th element from the k-th set
RECURSIVE Choices(_)
Choices(sets) ==
    IF sets = <<>>
    THEN {<<>>}
    ELSE {<<h>> \o t : h \in Head(sets), t \in Choices(Tail(sets))}

\* the tiles of one read_town call, in the order of the loops
town_items(c, grid, stacks) ==
    [k \in 1..(TOWN * TOWN) |->
        [tile |-> town_tile(grid, k),
         unknown |-> blocks_for_tile(town_tile(grid, k)) = {},
         cols |-> IF blocks_for_tile(town_tile(grid, k)) = {}
                  THEN <<>>
                  ELSE <<column(town_xo(c.x) + town_tx(k), c.z, town_yo(c.y) - town_ty(k),
                                stacks[k])>>]]

----------------------------------------------------------------------------
(* The Luanti block format *)

\* n >> 8 & 0xFF, n & 0xFF
u16(k) == <<(k \div 256) % 256, k % 256>>

\* n >> 24 & 0xFF, n >> 16 & 0xFF, n >> 8 & 0xFF, n & 0xFF, of the number
\* n = hi * 65536 + lo with hi and lo below 65536 (TLC's integers end below
\* 0xffffffff, so the number is passed in two halves)
u32(hi, lo) == <<(hi \div 256) % 256, hi % 256, (lo \div 256) % 256, lo % 256>>

\* set(block)
present_blocks(block) == {block[i] : i \in DOMAIN block}

\* a mapping that lists the whole table, present in the chunk or not
present_block_map_all(block, bm) == bm.order

\* [ (k, v) for k, v in block_map.items() if v in present_blocks ], as the
\* names k in the order of the dict; v is bm.id[k]
present_block_map(block, bm) ==
    LET present == present_blocks(block)
    IN  SelectSeq(bm.order, LAMBDA k : bm.id[k] \in present)

\* the bytes that follow the header: the mapping version, the length of the
\* mapping, and per entry u16(v), u16(len(k)) and the name (kept as one
\* element, where the script yields its ASCII bytes)
mapping_section(block, bm) ==
    LET pbm == present_block_map(block, bm)
    IN  <<0>> \o u16(Len(pbm))
            \o Flatten([i \in 1..Len(pbm) |->
                           u16(bm.id[pbm[i]]) \o u16(Len(pbm[i])) \o <<pbm[i]>>])

\* for b in block: yield from u16(b)
param0(block) ==
    [i \in 1..(2 * CHUNK3) |-> u16(block[(i - 1) \div 2])[1 + ((i - 1) % 2)]]

\* block_to_data(block), read against the table bm
block_to_data(block, bm) ==
    [header |-> <<14>> \o u16(0) \o u32(65535, 65535),
     mapping |-> mapping_section(block, bm),
     widths |-> <<2, 2>>,
     param0 |-> param0(block),
     param1 |-> [i \in 1..CHUNK3 |-> 0],
     param2 |-> [i \in 1..CHUNK3 |-> 0],
     trailer |-> u32(0, 0) \o <<10>> \o u16(0)]

\* block_to_binary(block): the version and the compressed data; zstd is kept
\* as a tag on what it compressed
block_to_binary(block, bm) == [version |-> 29, zstd |-> block_to_data(block, bm)]

----------------------------------------------------------------------------
(* The database *)

\* before sqlite3.connect(...)
NoDb == [rows |-> <<>>, committed |-> <<>>, log |-> <<>>, open |-> FALSE]

\* sqlite3.connect(...): the rows of this run, those committed, the calls made
Connect == [rows |-> <<>>, committed |-> <<>>, log |-> <<>>, open |-> TRUE]

\* db.execute("insert or replace into blocks (pos, data) values (?, ?)")
insert_or_replace(d, pos, data) ==
    [d EXCEPT !.rows = IF pos \in DOMAIN @ THEN [@ EXCEPT ![pos] = data] ELSE @ @@ (pos :> data),
              !.log = Append(@, <<"execute", pos>>)]

\* db.commit()
commit(d) == [d EXCEPT !.committed = d.rows, !.log = Append(@, <<"commit">>)]

\* db.close()
close(d) == [d EXCEPT !.open = FALSE, !.log = Append(@, <<"close">>)]

\* Python's integers are unbounded and TLC's are 32 bits wide, so a position
\* is kept as the pair <<hi, lo>> that stands for hi * 4096 * 4096 + lo with
\* 0 <= lo < 4096 * 4096: each integer has exactly one such pair.
BigPos(hi, lo) == <<hi + (lo \div (4096 * 4096)), lo % (4096 * 4096)>>

\* a position that leaves the factor of y out
block_pos_flat(x, y, z) == BigPos(z, y + x)

\* pos = z * 4096 * 4096 + y * 4096 + x
block_pos(x, y, z) == BigPos(z, y * 4096 + x)

\* write_block(x, y, z, block)
write_block(d, x, y, z, block, bm) ==
    insert_or_replace(d, block_pos(x, y, z), block_to_binary(block, bm))

\* percent = 100 * n // len(World), n the index of the chunk
percent_of(k, W) == (100 * k) \div Len(W.order)

\* a loop that commits after every write
commit_due_always(k, W, prog) == TRUE

\* if percent > progress + 4
commit_due(k, W, prog) == percent_of(k, W) > prog + 4

----------------------------------------------------------------------------
(* The script, from the world pass to db.close() *)

\* what the properties keep of the calls made
NoHistory ==
    [calls |-> 0,          \* calls made by the caller of set_block or get_block_byte
     written |-> <<>>,     \* position -> the b of the last set_block call on it
     last |-> <<>>,        \* the last set_block call: its arguments, key and index
     interned |-> <<>>,    \* the last get_block_byte call: its name and the byte returned
     world |-> <<>>,       \* the tiles of the world pass: tx, ty, index, tile, stacks, columns set
     worldEnd |-> <<>>,    \* World as the world pass left it
     towns |-> <<>>,       \* the read_town calls: the call, its map, its stacks
     writes |-> <<>>]      \* the write_block calls: chunk key and pos

\* for ty in range(0, 256): for tx in range(0, 256): one tile, with all its
\* columns; the run ends when a set_block raises, else the loops go on, and
\* the towns follow the last tile
WorldTile ==
    /\ pc = "world"
    /\ LET idx == world_index(tx, ty)
           tile == ultima_world[idx]
       IN  \E stacks \in [1..(SCALE * SCALE) -> world_generator(tile)] :
             \E r \in {run_tiles(LoopState,
                                 << [tile |-> tile, unknown |-> blocks_for_tile(tile) = {},
                                     cols |-> world_columns(tx, ty, stacks)] >>)} :
                 /\ World' = r.World
                 /\ block_map' = r.block_map
                 /\ unknown_tiles' = r.unknown_tiles
                 /\ hist' = [hist EXCEPT
                               !.world = Append(@, [tx |-> tx, ty |-> ty, idx |-> idx,
                                                    tile |-> tile, stacks |-> stacks,
                                                    cols |-> {<<r.done[i].x, r.done[i].z>> :
                                                                 i \in 1..Len(r.done)}]),
                               !.worldEnd = IF r.ok /\ tx = GRID - 1 /\ ty = GRID - 1
                                            THEN r.World ELSE @]
                 /\ IF ~r.ok
                    THEN pc' = "error" /\ UNCHANGED <<tx, ty>>
                    ELSE IF tx < GRID - 1
                    THEN tx' = tx + 1 /\ UNCHANGED <<ty, pc>>
                    ELSE IF ty < GRID - 1
                    THEN tx' = 0 /\ ty' = ty + 1 /\ UNCHANGED pc
                    ELSE pc' = "towns" /\ UNCHANGED <<tx, ty>>
    /\ UNCHANGED <<ultima_world, ultima_towns, town_i, db, n, progress>>

\* the next read_town call; after the last one the script prints its report,
\* connects to the database and starts the write loop with progress = 0
ReadTown ==
    /\ pc = "towns"
    /\ town_i < Len(TownCalls)
    /\ LET c == TownCalls[town_i + 1]
           grid == ultima_towns[town_i + 1]
       IN  \E stacks \in Choices([k \in 1..(TOWN * TOWN) |-> town_generator(town_tile(grid, k))]) :
             \E r \in {run_tiles(LoopState, town_items(c, grid, stacks))} :
                 /\ World' = r.World
                 /\ block_map' = r.block_map
                 /\ unknown_tiles' = r.unknown_tiles
                 /\ hist' = [hist EXCEPT
                               !.towns = Append(@, [call |-> c, grid |-> grid, stacks |-> stacks])]
                 /\ town_i' = town_i + 1
                 /\ IF ~r.ok
                    THEN pc' = "error" /\ UNCHANGED <<db, n, progress>>
                    ELSE IF town_i + 1 < Len(TownCalls)
                    THEN UNCHANGED <<pc, db, n, progress>>
                    ELSE pc' = "write" /\ db' = Connect /\ n' = 0 /\ progress' = 0
    /\ UNCHANGED <<ultima_world, ultima_towns, tx, ty>>

\* for n, ((x, y, z), bb) in enumerate(World.items()): one chunk
WriteChunk ==
    /\ pc = "write"
    /\ n < Len(World.order)
    /\ LET key == World.order[n + 1]
           d == write_block(db, key[1], key[2], key[3], World.chunk[key], block_map)
       IN  /\ IF commit_due(n, World, progress)
              THEN db' = commit(d) /\ progress' = percent_of(n, World)
              ELSE db' = d /\ UNCHANGED progress
           /\ hist' = [hist EXCEPT !.writes =
                          Append(@, [key |-> key, pos |-> block_pos(key[1], key[2], key[3])])]
    /\ n' = n + 1
    /\ UNCHANGED <<World, block_map, unknown_tiles, pc, ultima_world, ultima_towns,
                   tx, ty, town_i>>

\* after the loop: db.commit(); db.close()
Finish ==
    /\ pc = "write"
    /\ n = Len(World.order)
    /\ db' = close(commit(db))
    /\ pc' = "done"
    /\ UNCHANGED <<World, block_map, unknown_tiles, ultima_world, ultima_towns,
                   tx, ty, town_i, n, progress, hist>>

----------------------------------------------------------------------------
(* The maps the script is run on *)

WorldMap(t) == [i \in 0..(GRID * GRID - 1) |-> t]

TownMap(t) == [i \in 0..(TOWN * TOWN - 1) |-> t]

\* world maps: water; brick six high; water with one tile without a rule;
\* brick with two tiles without a rule, in two blocks of the map
WorldMaps ==
    { WorldMap(0),
      WorldMap(127),
      [WorldMap(0) EXCEPT ![1] = 9],
      [WorldMap(127) EXCEPT ![SUB * SUB] = 200, ![GRID * GRID - SUB] = 200] }

\* world maps with one tile of random content, the last the world pass
\* reaches: grass with a hill four or five high; water with a jungle
HillMaps ==
    { [WorldMap(3) EXCEPT ![GRID * GRID - 1] = 7],
      [WorldMap(0) EXCEPT ![GRID * GRID - 1] = 5] }

\* town maps: diamond ten high; stone and cobble with three tiles without a
\* rule; brick with one hill of random height
TownMaps ==
    { TownMap(61),
      [TownMap(57) EXCEPT ![1] = 9, ![TOWN] = 9, ![TOWN * TOWN - 1] = 200],
      [TownMap(62) EXCEPT ![TOWN + 1] = 7] }

\* every world map with towns of brick, brick with every choice of towns, and
\* a world and towns that both hold tiles without a rule
Scenarios ==
    { <<w, [i \in 1..Len(TownCalls) |-> TownMap(62)]>> : w \in WorldMaps }
        \cup { <<WorldMap(127), t>> : t \in [1..Len(TownCalls) -> TownMaps] }
        \cup { <<[WorldMap(0) EXCEPT ![1] = 9],
                 [i \in 1..Len(TownCalls) |-> [TownMap(57) EXCEPT ![1] = 9, ![TOWN] = 9,
                                                                  ![TOWN * TOWN - 1] = 200]]>> }

\* the script before the world pass, with the maps of one of the scenarios
InitFrom(scenarios) ==
    /\ World = EmptyWorld
    /\ block_map = InitBlockMap
    /\ unknown_tiles = <<>>
    /\ pc = "world"
    /\ \E sc \in scenarios : ultima_world = sc[1] /\ ultima_towns = sc[2]
    /\ ty = 0
    /\ tx = 0
    /\ town_i = 0
    /\ db = NoDb
    /\ n = 0
    /\ progress = 0
    /\ hist = NoHistory

Init == InitFrom(Scenarios)

Next == WorldTile \/ ReadTown \/ WriteChunk \/ Finish

Spec == Init /\ [][Next]_vars

----------------------------------------------------------------------------
(* The world pass alone, on every world map *)

InitWorld ==
    InitFrom({ <<w, [i \in 1..Len(TownCalls) |-> TownMap(62)]>> : w \in WorldMaps \cup HillMaps })

NextWorld == WorldTile

SpecWorld == InitWorld /\ [][NextWorld]_vars

----------------------------------------------------------------------------
(* The chunk store under any sequence of set_block calls, followed by the  *)
(* write loop                                                              *)

\* set_block calls made before the write loop starts
MaxSets == 2

\* positions around the chunk boundaries next to the origin
Positions ==
    { <<0, 0, 0>>, <<CHUNK - 1, 0, 0>>, <<CHUNK, 0, 0>>, <<-1, 0, 0>>, <<-CHUNK, 0, 0>>,
      <<-CHUNK - 1, 0, 0>>, <<0, -1, 0>>, <<0, CHUNK, 0>>, <<0, 0, -1>>, <<0, 0, CHUNK>>,
      <<1, 2, 3>>, <<-1, -1, -1>>, <<2 * CHUNK, -CHUNK, CHUNK - 1>> }

\* positions whose chunk keys are one apart on one axis, the least and the
\* greatest that a position key holds (-2048 and 2047), and beyond them (2048)
KeyPositions ==
    { <<0, 0, 0>>, <<CHUNK, 0, 0>>, <<0, CHUNK, 0>>, <<0, 0, CHUNK>>,
      <<-2048 * CHUNK, 0, 0>>, <<2047 * CHUNK + CHUNK - 1, 0, 0>>,
      <<-2048 * CHUNK, CHUNK, 0>>, <<2048 * CHUNK, 0, 0>>,
      <<2047 * CHUNK, 2047 * CHUNK, 2047 * CHUNK>>,
      <<-2048 * CHUNK, -2048 * CHUNK, -2048 * CHUNK>> }

Bytes == {0, 1, BYTE - 1}

\* the caller's state other than the store
IdleInit ==
    /\ block_map = InitBlockMap
    /\ unknown_tiles = <<>>
    /\ pc = "calls"
    /\ ultima_world = <<>>
    /\ ultima_towns = <<>>
    /\ ty = 0
    /\ tx = 0
    /\ town_i = 0
    /\ db = NoDb
    /\ n = 0
    /\ progress = 0
    /\ hist = NoHistory

\* one call set_block(x, y, z, b), the position from P and the byte from B
SetBlockFrom(P, B) ==
    /\ pc = "calls"
    /\ hist.calls < MaxSets
    /\ \E p \in P, b \in B :
         LET r == set_block(World, p[1], p[2], p[3], b)
         IN  /\ World' = r.World
             /\ pc' = IF r.ok THEN pc ELSE "error"
             /\ hist' = [hist EXCEPT
                           !.calls = @ + 1,
                           !.written = (p :> b) @@ @,
                           !.last = [x |-> p[1], y |-> p[2], z |-> p[3], b |-> b,
                                     key |-> chunk_key(p[1], p[2], p[3]),
                                     index |-> chunk_index(p[1], p[2], p[3])]]
    /\ UNCHANGED <<block_map, unknown_tiles, ultima_world, ultima_towns, ty, tx, town_i,
                   db, n, progress>>

\* the calls end: db = sqlite3.connect(...), progress = 0, and the write loop
StartWrite ==
    /\ pc = "calls"
    /\ pc' = "write"
    /\ db' = Connect
    /\ n' = 0
    /\ progress' = 0
    /\ UNCHANGED <<World, block_map, unknown_tiles, ultima_world, ultima_towns, ty, tx,
                   town_i, hist>>

InitStore == World = EmptyWorld /\ IdleInit

SetBlockCall == SetBlockFrom(Positions, Bytes)

NextStore == SetBlockCall

SpecStore == InitStore /\ [][NextStore]_vars

\* the calls that decide the keys of the chunks, and the write loop after them
SetKeyCall == SetBlockFrom(KeyPositions, {1})

NextKeys == SetKeyCall \/ StartWrite \/ WriteChunk \/ Finish

SpecKeys == InitStore /\ [][NextKeys]_vars

----------------------------------------------------------------------------
(* The table of block types under any sequence of get_block_byte calls *)

\* names other than "air" that the calls draw from
NameCount == 4

\* the i-th name other than "air"
NameOf(i) == IF i = 0 THEN "air" ELSE "node:" \o ToString(i)

\* one call get_block_byte(itemstring)
GetBlockByteCall ==
    /\ pc = "calls"
    /\ \E i \in 0..NameCount :
         LET g == get_block_byte(block_map, NameOf(i))
         IN  /\ block_map' = g.block_map
             /\ hist' = [hist EXCEPT !.interned = [name |-> NameOf(i), bb |-> g.bb]]
    /\ UNCHANGED <<World, unknown_tiles, pc, ultima_world, ultima_towns, ty, tx, town_i,
                   db, n, progress>>

NextIntern == GetBlockByteCall

SpecIntern == InitStore /\ [][NextIntern]_vars

----------------------------------------------------------------------------
(* The innermost loop body under names without end: each call interns the  *)
(* name and sets one voxel, as the loops of the world pass and of          *)
(* read_town do.  A new name is the next in the list of names; a name seen *)
(* before is "air" or the newest.                                          *)

\* names other than "air" that the calls can reach: one more than a byte holds
MaxNames == 257

PlaceCall ==
    /\ pc = "calls"
    /\ \E i \in {0, Len(block_map.order) - 1, Len(block_map.order)} :
         /\ i <= MaxNames
         /\ LET r == place_all(LoopState, column(0, 0, 0, <<NameOf(i)>>))
            IN  /\ World' = r.World
                /\ block_map' = r.block_map
                /\ pc' = IF r.ok THEN pc ELSE "error"
    /\ UNCHANGED <<unknown_tiles, ultima_world, ultima_towns, ty, tx, town_i, db, n, progress,
                   hist>>

NextCap == PlaceCall \/ StartWrite \/ WriteChunk \/ Finish

SpecCap == InitStore /\ [][NextCap]_vars

----------------------------------------------------------------------------
(* Properties of the chunk store *)

\* the positions of the voxels of the chunk with key k
CellsOf(k) ==
    {<<k[1] * CHUNK + lx, k[2] * CHUNK + ly, k[3] * CHUNK + lz>> :
        lx \in 0..(CHUNK - 1), ly \in 0..(CHUNK - 1), lz \in 0..(CHUNK - 1)}

\* C1: after any sequence of set_block calls, every position reads the b of
\* the most recent call on exactly that position, and 0 when it was never
\* set, whether its chunk exists or not: checked on every position the calls
\* draw from and on every voxel of every chunk that exists.
C1_ReadsLastWrite ==
    \A p \in Positions \cup UNION {CellsOf(k) : k \in DOMAIN World.chunk} :
        get_block(World, p[1], p[2], p[3])
            = IF p \in DOMAIN hist.written THEN hist.written[p] ELSE 0

\* two positions with negative coordinates in one chunk, set to two bytes
C1_Witness ==
    /\ hist.calls = 2
    /\ DOMAIN hist.written = {<<-1, 0, 0>>, <<-CHUNK, 0, 0>>}
    /\ get_block(World, -1, 0, 0) = 1
    /\ get_block(World, -CHUNK, 0, 0) = BYTE - 1
    /\ get_block(World, -2, 0, 0) = 0

\* the least coordinate of the CHUNK-aligned block that holds c
AlignedBase(c) == c - (c % CHUNK)

\* the unit vector of axis a, times d, added to p
Shifted(p, a, d) == [p EXCEPT ![a] = @ + d]

\* C2: the chunk key of set_block is the floor division by CHUNK on each
\* axis and the index is built from the non-negative remainders: positions of
\* one aligned block share the key, positions CHUNK apart on one axis have
\* keys one apart on that axis, and a coordinate that is a multiple of CHUNK
\* lies at local offset 0 of the chunk that starts there.
C2_ChunkKey ==
    hist.last # <<>> =>
        LET l == hist.last
            p == <<l.x, l.y, l.z>>
            off == [a \in 1..3 |-> p[a] - CHUNK * l.key[a]]
        IN  /\ l.key \in DOMAIN World.chunk
            /\ \A a \in 1..3 : off[a] \in 0..(CHUNK - 1)
            /\ l.index = off[3] * CHUNK * CHUNK + off[2] * CHUNK + off[1]
            /\ \A q \in Positions :
                   (\A a \in 1..3 : AlignedBase(q[a]) = AlignedBase(p[a]))
                       => chunk_key(q[1], q[2], q[3]) = l.key
            /\ \A a \in 1..3 :
                   LET up == Shifted(p, a, CHUNK)
                       down == Shifted(p, a, -CHUNK)
                   IN  /\ chunk_key(up[1], up[2], up[3]) = Shifted(l.key, a, 1)
                       /\ chunk_key(down[1], down[2], down[3]) = Shifted(l.key, a, -1)
            /\ \A a \in 1..3 :
                   p[a] % CHUNK = 0 => CHUNK * l.key[a] = p[a] /\ off[a] = 0

\* a voxel set at the negative multiple -CHUNK: chunk -1, local offset 0
C2_Witness ==
    /\ hist.last # <<>>
    /\ hist.last.x = -CHUNK
    /\ hist.last.key = <<-1, 0, 0>>
    /\ hist.last.index = 0
    /\ hist.last.b = 1
    /\ World.chunk[<<-1, 0, 0>>][0] = 1

----------------------------------------------------------------------------
(* Properties of the table of block types *)

\* the state part of C3: no two names share an id, "air" has 0 and no other
\* name has, the ids are 0..len-1 in the order of first encounter, and the
\* call returned the id the table holds
C3_Table ==
    /\ \A a, b \in DOMAIN block_map.id : block_map.id[a] = block_map.id[b] => a = b
    /\ "air" \in DOMAIN block_map.id
    /\ \A a \in DOMAIN block_map.id : block_map.id[a] = 0 <=> a = "air"
    /\ {block_map.id[a] : a \in DOMAIN block_map.id} = 0..(Cardinality(DOMAIN block_map.id) - 1)
    /\ DOMAIN block_map.id = {block_map.order[i] : i \in 1..Len(block_map.order)}
    /\ \A i, j \in 1..Len(block_map.order) :
           i < j => block_map.id[block_map.order[i]] < block_map.id[block_map.order[j]]
    /\ hist.interned # <<>> =>
           /\ hist.interned.name \in DOMAIN block_map.id
           /\ hist.interned.bb = block_map.id[hist.interned.name]

\* the step part of C3: a name seen before keeps its id, and a new name gets
\* the id after the greatest so far
C3_Step ==
    /\ \A a \in DOMAIN block_map.id :
           a \in DOMAIN block_map'.id /\ block_map'.id[a] = block_map.id[a]
    /\ \A a \in DOMAIN block_map'.id \ DOMAIN block_map.id :
           /\ block_map'.id[a] = Cardinality(DOMAIN block_map.id)
           /\ \A b \in DOMAIN block_map.id : block_map.id[b] < block_map'.id[a]

\* C3: after any sequence of get_block_byte calls block_map is injective,
\* "air" alone maps to 0, a name interned before gets the same id on every
\* later call, and new names get 1, 2, 3, ... in the order of first
\* encounter, so that the ids are exactly 0..len(block_map)-1.
C3_Interning == []C3_Table /\ [][C3_Step]_vars

\* all names interned, and a call on a name seen before returns its old id
C3_Witness ==
    /\ Len(block_map.order) = NameCount + 1
    /\ hist.interned # <<>>
    /\ hist.interned.bb > 0
    /\ hist.interned.bb < NameCount - 1

\* C7: the 257th distinct name (id 256) ends the run with an error before
\* the database is connected to or written, no chunk ever holds a value
\* outside 0..255, and the ids 0..255 raise no error.
C7_Capacity ==
    /\ \A k \in DOMAIN World.chunk : \A i \in DOMAIN World.chunk[k] :
           World.chunk[k][i] \in 0..255
    /\ Len(block_map.order) > 256 =>
           /\ pc = "error"
           /\ db = NoDb
           /\ ~ENABLED NextCap
    /\ Len(block_map.order) <= 256 => pc # "error"
    /\ pc = "error" => Len(block_map.order) = 257

\* the name with id 256 was interned and the run ended, the chunk still
\* holding the byte 255 of the name before
C7_Witness ==
    /\ Len(block_map.order) = 257
    /\ block_map.id[NameOf(256)] = 256
    /\ pc = "error"
    /\ db = NoDb
    /\ World.chunk[<<0, 0, 0>>][0] = 255

----------------------------------------------------------------------------
(* Properties of the position key *)

InKeyRange(k) == \A a \in 1..3 : k[a] \in -2048..2047

----------------------------------------------------------------------------
(* Properties of the run of the script *)

Assembled == pc \in {"write", "done"}

\* the mapping section of the chunk with key k, as block_to_data emits it
MappingOf(k) == block_to_data(World.chunk[k], block_map).mapping

\* the 16-bit count of a mapping section
MappingCount(m) == m[2] * 256 + m[3]

\* the j-th entry of a mapping section: its id, the length and the name
MappingEntry(m, j) ==
    [id |-> m[3 + 5 * (j - 1) + 1] * 256 + m[3 + 5 * (j - 1) + 2],
     len |-> m[3 + 5 * (j - 1) + 3] * 256 + m[3 + 5 * (j - 1) + 4],
     name |-> m[3 + 5 * (j - 1) + 5]]

\* C4: for every chunk of World after assembly the mapping section holds one
\* entry per distinct id of the chunk's array and none for an id the chunk
\* does not hold, its count is the number of distinct ids, and every entry
\* pairs the id with the name block_map interned to it.  World stays as it is
\* once assembled (C9), so the chunks are all checked when assembly ends and
\* each again, with the row that carries its section, when it is written.
C4_MappingSection ==
    Assembled =>
        /\ \A k \in IF n = 0 THEN DOMAIN World.chunk ELSE {hist.writes[n].key} :
               LET m == MappingOf(k)
                   cnt == MappingCount(m)
                   present == {World.chunk[k][i] : i \in DOMAIN World.chunk[k]}
               IN  /\ m[1] = 0
                   /\ Len(m) = 3 + 5 * cnt
                   /\ cnt = Cardinality(present)
                   /\ {MappingEntry(m, j).id : j \in 1..cnt} = present
                   /\ \A i, j \in 1..cnt :
                          MappingEntry(m, i).id = MappingEntry(m, j).id => i = j
                   /\ \A j \in 1..cnt :
                          LET e == MappingEntry(m, j)
                          IN  /\ e.name \in DOMAIN block_map.id
                              /\ block_map.id[e.name] = e.id
                              /\ e.len = Len(e.name)
        /\ n > 0 => db.rows[hist.writes[n].pos].zstd.mapping = MappingOf(hist.writes[n].key)
        /\ pc = "done" => {hist.writes[i].key : i \in 1..n} = DOMAIN World.chunk

\* a written chunk that holds two or more ids, though not every id of the table
C4_Witness ==
    /\ pc = "done"
    /\ \E i \in 1..Len(hist.writes) :
           LET m == db.rows[hist.writes[i].pos].zstd.mapping
           IN  /\ MappingCount(m) >= 2
               /\ MappingCount(m) < Len(block_map.order)
               /\ MappingEntry(m, 1).name = "air"
               /\ MappingEntry(m, 2).id > 1

----------------------------------------------------------------------------

Unknown(tile) == blocks_for_tile(tile) = {}

\* the occurrences of the tile in the world tiles and the town maps processed
Occurrences(tile) ==
    Cardinality({i \in 1..Len(hist.world) : hist.world[i].tile = tile})
        + Cardinality({<<j, k>> \in (1..Len(hist.towns)) \X (1..(TOWN * TOWN)) :
                          town_tile(hist.towns[j].grid, k) = tile})

\* the tiles of the maps of the run
MapTiles ==
    {ultima_world[i] : i \in DOMAIN ultima_world}
        \cup UNION {{ultima_towns[j][k] : k \in DOMAIN ultima_towns[j]} : j \in DOMAIN ultima_towns}

\* unknown_tiles counts every occurrence of a tile without a rule once, in the
\* world pass and in read_town, and no run ends with an error
C5_Counted ==
    /\ pc # "error"
    /\ \A tile \in MapTiles \cup DOMAIN unknown_tiles :
           unknown_count(unknown_tiles, tile) = IF Unknown(tile) THEN Occurrences(tile) ELSE 0

\* the world pass is under way or has just ended
WorldPass == pc = "world" \/ (pc = "towns" /\ town_i = 0)

\* during the world pass and at its end, every column of a world tile
\* without a rule holds the default stack
C5_WorldDefault ==
    WorldPass =>
        \A i \in 1..Len(hist.world) :
            LET e == hist.world[i]
            IN  Unknown(e.tile) =>
                    \A ox, oy \in 0..(SCALE - 1) :
                        /\ \A h \in 1..4 :
                               /\ "default:goldblock" \in DOMAIN block_map.id
                               /\ get_block(World, world_x(e.tx, ox), h - 1, world_z(e.ty, oy))
                                      = block_map.id["default:goldblock"]
                        /\ get_block(World, world_x(e.tx, ox), 4, world_z(e.ty, oy)) = 0

\* the columns of the tiles without a rule in the map of the read_town call
\* that is next, as positions up to the height of the default stack
NextTownUnknown ==
    LET c == TownCalls[town_i + 1]
        grid == ultima_towns[town_i + 1]
    IN  {<<town_xo(c.x) + town_tx(k), c.z + (h - 1), town_yo(c.y) - town_ty(k)>> :
            k \in {kk \in 1..(TOWN * TOWN) : Unknown(town_tile(grid, kk))}, h \in 1..4}

\* a read_town call leaves the columns of its tiles without a rule as they were
C5_TownSkips ==
    (pc = "towns" /\ town_i' = town_i + 1) =>
        \A p \in NextTownUnknown :
            get_block(World', p[1], p[2], p[3]) = get_block(World, p[1], p[2], p[3])

\* a read_town call writes the default stack to the columns of its tiles
\* without a rule
C5_TownDefault ==
    (pc = "towns" /\ town_i' = town_i + 1) =>
        \A p \in NextTownUnknown :
            /\ "default:goldblock" \in DOMAIN block_map'.id
            /\ get_block(World', p[1], p[2], p[3]) = block_map'.id["default:goldblock"]

----------------------------------------------------------------------------

\* the voxels the j-th read_town call wrote: position and name
TownVoxels(j) ==
    LET e == hist.towns[j]
    IN  UNION {{<<<<town_xo(e.call.x) + town_tx(k), e.call.z + (h - 1),
                    town_yo(e.call.y) - town_ty(k)>>, e.stacks[k][h]>> :
                  h \in 1..Len(e.stacks[k])} : k \in 1..(TOWN * TOWN)}

TownPositions(j) == {v[1] : v \in TownVoxels(j)}

\* C6: every read_town call comes after the whole world pass, and at the end
\* of assembly a position written by a town holds what the last town call
\* that wrote it put there, whatever the world pass wrote, while all other
\* positions hold what the world pass left (checked in the state assembly
\* ends in; World stays as it is from there on, C9).
C6_TownsOverWorld ==
    /\ pc = "world" => hist.towns = <<>> /\ town_i = 0
    /\ hist.towns # <<>> => Len(hist.world) = GRID * GRID
    /\ (Assembled /\ n = 0) =>
           LET calls == 1..Len(hist.towns)
               all == UNION {TownPositions(j) : j \in calls}
           IN  /\ Len(hist.towns) = Len(TownCalls)
               /\ \A j \in calls :
                      LET later == UNION {TownPositions(i) : i \in {ii \in calls : ii > j}}
                      IN  \A v \in TownVoxels(j) :
                              v[1] \notin later =>
                                  get_block(World, v[1][1], v[1][2], v[1][3]) = block_map.id[v[2]]
               /\ \A k \in DOMAIN World.chunk : \A p \in CellsOf(k) :
                      p \notin all =>
                          get_block(World, p[1], p[2], p[3])
                              = get_block(hist.worldEnd, p[1], p[2], p[3])

\* a town of diamond and over it a town of brick, on a world of brick: the
\* second town over the first, the first over the world, the world elsewhere
C6_Witness ==
    /\ pc = "done"
    /\ ultima_world = WorldMap(127)
    /\ ultima_towns[1] = TownMap(61)
    /\ ultima_towns[2][0] = 62
    /\ LET x == town_xo(TownCalls[1].x) + 1
           z == town_yo(TownCalls[1].y)
       IN  /\ get_block(hist.worldEnd, x, TownCalls[1].z, z) = block_map.id["default:brick"]
           /\ get_block(World, x, TownCalls[1].z, z) = block_map.id["default:diamondblock"]
           /\ get_block(World, x, TownCalls[2].z, z) = block_map.id["default:brick"]
           /\ get_block(World, x, TownCalls[2].z + 1, z) = block_map.id["default:diamondblock"]
           /\ get_block(World, x, 0, z) = block_map.id["default:brick"]

----------------------------------------------------------------------------

Executes(log) == {i \in 1..Len(log) : log[i][1] = "execute"}

Commits(log) == {i \in 1..Len(log) : log[i][1] = "commit"}

\* on completion every chunk key of World went to write_block once, in the
\* order of World, and the database was committed after the last write and
\* then closed, no row left uncommitted
C9_Completed ==
    pc = "done" =>
        /\ Len(hist.writes) = Len(World.order)
        /\ \A i \in 1..Len(hist.writes) : hist.writes[i].key = World.order[i]
        /\ \A i, j \in 1..Len(World.order) : World.order[i] = World.order[j] => i = j
        /\ {World.order[i] : i \in 1..Len(World.order)} = DOMAIN World.chunk
        /\ Cardinality(Executes(db.log)) = Len(World.order)
        /\ Len(db.log) >= 2
        /\ db.log[Len(db.log)] = <<"close">>
        /\ db.log[Len(db.log) - 1] = <<"commit">>
        /\ db.committed = db.rows
        /\ ~db.open

\* in the loop a commit comes right after a write, never after the first
\* write, so that the commits are fewer than the writes
C9_Batched ==
    pc = "write" =>
        /\ \A i \in Commits(db.log) : i > 2 /\ db.log[i - 1][1] = "execute"
        /\ db.log # <<>> => Cardinality(Commits(db.log)) < Cardinality(Executes(db.log))
        /\ Len(hist.writes) = n
        /\ Cardinality(Executes(db.log)) = n

\* once write_block was called, World and block_map stay as they are
C9_ReadOnly == hist.writes # <<>> => (World' = World /\ block_map' = block_map)

----------------------------------------------------------------------------

Tiles == (0..(GRID - 1)) \X (0..(GRID - 1))

\* the columns (x, z) of the tile (tx_, ty_): SCALE by SCALE, z from
\* GRID*SCALE - ty_*SCALE downwards
Footprint(tx_, ty_) ==
    {<<tx_ * SCALE + ox, GRID * SCALE - (ty_ * SCALE + oy)>> : ox, oy \in 0..(SCALE - 1)}

\* the tiles of the world pass looked at in a state: the tile just written
\* while the pass is under way, all tiles when it has ended
TilesChecked == IF pc = "world" THEN {Len(hist.world)} \ {0} ELSE 1..Len(hist.world)

\* C10: the index of the world pass is a bijection from the tile coordinates
\* onto 0..GRID*GRID-1, the footprints of distinct tiles are disjoint, every
\* column (x, z) with 0 <= x < GRID*SCALE and 1 <= z <= GRID*SCALE is written
\* by the tile (x // SCALE, (GRID*SCALE - z) // SCALE) alone, element i of the
\* stack at the height i from 0, and no other column (z = 0 in particular) is
\* written by the world pass.
C10_WorldLayout ==
    /\ \A s, t \in Tiles : world_index(s[1], s[2]) = world_index(t[1], t[2]) => s = t
    /\ {world_index(t[1], t[2]) : t \in Tiles} = 0..(GRID * GRID - 1)
    /\ WorldPass =>
        /\ \A i \in TilesChecked :
               LET e == hist.world[i]
               IN  /\ e.idx = world_index(e.tx, e.ty)
                   /\ e.tile = ultima_world[e.idx]
                   /\ e.cols = Footprint(e.tx, e.ty)
                   /\ Cardinality(e.cols) = SCALE * SCALE
                   /\ \A c \in e.cols :
                          /\ c[1] \in 0..(GRID * SCALE - 1)
                          /\ c[2] \in 1..(GRID * SCALE)
                          /\ c[1] \div SCALE = e.tx
                          /\ (GRID * SCALE - c[2]) \div SCALE = e.ty
                   /\ \A j \in 1..Len(hist.world) :
                          j # i => /\ hist.world[j].idx # e.idx
                                   /\ hist.world[j].cols \cap e.cols = {}
                   /\ \A c \in 1..(SCALE * SCALE) :
                          LET x == e.tx * SCALE + ((c - 1) \div SCALE)
                              z == GRID * SCALE - (e.ty * SCALE + ((c - 1) % SCALE))
                          IN  /\ \A h \in 1..Len(e.stacks[c]) :
                                     get_block(World, x, h - 1, z) = block_map.id[e.stacks[c][h]]
                              /\ get_block(World, x, Len(e.stacks[c]), z) = 0
                              /\ get_block(World, x, -1, z) = 0
        /\ pc # "world" =>
               /\ {hist.world[i].idx : i \in 1..Len(hist.world)} = 0..(GRID * GRID - 1)
               /\ UNION {hist.world[i].cols : i \in 1..Len(hist.world)}
                      = (0..(GRID * SCALE - 1)) \X (1..(GRID * SCALE))
               /\ \A k \in DOMAIN World.chunk : \A p \in CellsOf(k) :
                      get_block(World, p[1], p[2], p[3]) # 0 =>
                          /\ p[1] \in 0..(GRID * SCALE - 1)
                          /\ p[2] >= 0
                          /\ p[3] \in 1..(GRID * SCALE)

\* the world pass done on the map with a hill of random height: the tiles of
\* the second block of the map follow those of the first, the row z = 0 is
\* empty and the row z = GRID*SCALE is not
C10_Witness ==
    /\ pc = "towns"
    /\ town_i = 0
    /\ Len(hist.world) = GRID * GRID
    /\ hist.world[SUB + 1].idx = SUB * SUB
    /\ hist.world[GRID * GRID].tile = 7
    /\ \E c \in 1..(SCALE * SCALE) : Len(hist.world[GRID * GRID].stacks[c]) = 5
    /\ \E c \in 1..(SCALE * SCALE) : Len(hist.world[GRID * GRID].stacks[c]) = 4
    /\ <<0, 0, 0>> \in DOMAIN World.chunk
    /\ get_block(World, 0, 0, 0) = 0
    /\ get_block(World, 0, 0, GRID * SCALE) # 0
    /\ get_block(World, GRID * SCALE - 1, 0, 1) = block_map.id["default:stone"]

====
